---- MODULE Spec2Model ----
(* Model of the EPG tools of gleibsonms/epg:                                *)
(*   epg_generator_auto.py  (program "auto")                                *)
(*   epg_generator.py       (program "gen")                                 *)
(*   build_epg_br.py        (program "br")                                  *)
(* A text is a sequence of characters, a character being a one-token        *)
(* string.  Python dicts are sequences of [k, v] records in insertion order.*)
EXTENDS Integers, Sequences, FiniteSets, TLC

VARIABLES
    pc,               \* position of the running program
    program,          \* "none" | "auto" | "gen" | "br" | "norm"
    m3u,              \* the playlist document: sequence of #EXTINF entries
    epg,              \* the EPG document: [ok, channels, programmes]
    threshold,        \* --threshold / --min-ratio, a rational <<num, den>>
    ids,              \* auto: list of [raw, norm]
    channel_map,      \* auto: dict norm key -> <channel> element
    prog_map,         \* auto: dict norm key -> list of <programme> elements
    matched_channels, \* auto: dict playlist norm key -> EPG norm key
    m3u_channels,     \* gen: list of [tvg_id, name]
    epg_channels,     \* gen: list of [id, display]
    epg_events,       \* gen: [none, d] with d a dict epg id -> list of events
    mapping,          \* gen: dict tvg_id -> [epg, score]
    matchlog,         \* history: one record per playlist channel matched
    hours,            \* gen: --hours
    now,              \* gen: the clock reading of now_tz()
    start_base,       \* gen: anchor time of the placeholders
    tv,               \* the output document: sequence of elements
    keywords,         \* br: --keywords, a list of texts
    min_kw_matches,   \* br: --min-kw-matches
    br_ids,           \* br: the ids of the channels found Brazilian
    nIn,              \* norm: the input text
    nOut              \* norm: the results of the normalizer applied

vars == <<pc, program, m3u, epg, threshold, ids, channel_map, prog_map,
          matched_channels, m3u_channels, epg_channels, epg_events, mapping,
          matchlog, hours, now, start_base, tv, keywords, min_kw_matches,
          br_ids, nIn, nOut>>

-----------------------------------------------------------------------------
(* Bounds of the model.                                                     *)
MaxLen == 5
MaxPlaylist == 2
MaxEpgChannels == 2
MaxProgs == 2
MaxHours == 2

-----------------------------------------------------------------------------
(* Characters.  o_circ / O_circ are U+00F4 / U+00D4, circ is the combining  *)
(* circumflex U+0302 (category Mn), tab is U+0009.                          *)
LowerLetters == {"a", "b", "c", "d", "o", "t"}
UpperLetters == {"A", "B", "O"}
Digits == {"1", "2"}

Lower(c) ==
    CASE c = "A" -> "a"
      [] c = "B" -> "b"
      [] c = "O" -> "o"
      [] c = "O_circ" -> "o_circ"
      [] OTHER -> c

NFD(c) ==
    CASE c = "o_circ" -> <<"o", "circ">>
      [] c = "O_circ" -> <<"O", "circ">>
      [] OTHER -> <<c>>

IsMn(c) == c = "circ"

IsSpace(c) == c \in {" ", "tab"}

IsAsciiLowerOrDigit(c) == c \in LowerLetters \cup Digits

IsLatinExt(c) == c \in {"o_circ", "O_circ"}

-----------------------------------------------------------------------------
(* Text helpers.                                                            *)
\* unicodedata.normalize('NFD', s)
RECURSIVE Decompose(_)
Decompose(s) ==
    IF s = <<>> THEN <<>> ELSE NFD(Head(s)) \o Decompose(Tail(s))

\* str.lower()
LowerStr(s) == [i \in 1..Len(s) |-> Lower(s[i])]

RECURSIVE LStrip(_)
LStrip(s) ==
    IF s # <<>> /\ IsSpace(Head(s)) THEN LStrip(Tail(s)) ELSE s

RECURSIVE RStrip(_)
RStrip(s) ==
    IF s # <<>> /\ IsSpace(s[Len(s)]) THEN RStrip(SubSeq(s, 1, Len(s) - 1)) ELSE s

\* str.strip()
Strip(s) == RStrip(LStrip(s))

\* re.sub(r"\s+", " ", s)
RECURSIVE CollapseSpaces(_)
CollapseSpaces(s) ==
    IF s = <<>> THEN <<>>
    ELSE IF IsSpace(Head(s))
         THEN <<" ">> \o CollapseSpaces(LStrip(s))
         ELSE <<Head(s)>> \o CollapseSpaces(Tail(s))

-----------------------------------------------------------------------------
(* The three normalizers.                                                   *)

\* epg_generator_auto.py norm_id
NormIdKeep(c) == IsAsciiLowerOrDigit(c)
NormIdNotMn(c) == ~IsMn(c)
norm_id(s) ==
    LET s1 == LowerStr(Strip(s))
        s2 == SelectSeq(Decompose(s1), NormIdNotMn)
    IN  SelectSeq(s2, NormIdKeep)

\* epg_generator.py normalize_name
NormalizeNameKeep(c) == IsAsciiLowerOrDigit(c) \/ c = " "
normalize_name(s) ==
    IF s = <<>> THEN <<>>
    ELSE LET s1 == LowerStr(s)
             s2 == CollapseSpaces(s1)
             s3 == SelectSeq(s2, NormalizeNameKeep)
         IN  Strip(s3)

\* build_epg_br.py normalize
NormalizeBrChar(c) ==
    IF IsAsciiLowerOrDigit(c) \/ IsLatinExt(c) \/ IsSpace(c) THEN c ELSE " "
normalize(s) ==
    IF s = <<>> THEN <<>>
    ELSE LET s1 == LowerStr(s)
             s2 == [i \in 1..Len(s1) |-> NormalizeBrChar(s1[i])]
         IN  Strip(CollapseSpaces(s2))

-----------------------------------------------------------------------------
(* difflib.SequenceMatcher(None, a, b).ratio(), no junk (autojunk only acts *)
(* on texts of 200 characters or more).  A ratio is a rational <<n, d>>.    *)

RECURSIVE CommonPrefixLen(_, _, _, _)
CommonPrefixLen(a, i, b, j) ==
    IF i <= Len(a) /\ j <= Len(b) /\ a[i] = b[j]
    THEN 1 + CommonPrefixLen(a, i + 1, b, j + 1)
    ELSE 0

\* find_longest_match: the longest block, earliest in a, then earliest in b
LongestMatch(a, b) ==
    LET Pairs == (1..Len(a)) \X (1..Len(b))
        K(p) == CommonPrefixLen(a, p[1], b, p[2])
        Better(p, q) == \/ K(p) > K(q)
                        \/ K(p) = K(q) /\ p[1] < q[1]
                        \/ K(p) = K(q) /\ p[1] = q[1] /\ p[2] <= q[2]
        best == CHOOSE p \in Pairs : \A q \in Pairs : Better(p, q)
    IN  [i |-> best[1], j |-> best[2], k |-> K(best)]

\* get_matching_blocks: total size of the matching blocks, the longest block
\* m first, then the blocks to its left and to its right
RECURSIVE MatchCount(_, _)
MatchCountAround(a, b, m) ==
    IF m.k = 0 THEN 0
    ELSE m.k
         + MatchCount(SubSeq(a, 1, m.i - 1), SubSeq(b, 1, m.j - 1))
         + MatchCount(SubSeq(a, m.i + m.k, Len(a)), SubSeq(b, m.j + m.k, Len(b)))

MatchCount(a, b) ==
    IF a = <<>> \/ b = <<>> THEN 0
    ELSE MatchCountAround(a, b, LongestMatch(a, b))

\* ratio(): 2.0 * matches / length, 1.0 when both texts are empty
Ratio(a, b) ==
    IF Len(a) + Len(b) = 0 THEN <<1, 1>>
    ELSE <<2 * MatchCount(a, b), Len(a) + Len(b)>>

RatGT(r, t) == r[1] * t[2] > t[1] * r[2]
RatGE(r, t) == r[1] * t[2] >= t[1] * r[2]
RatEQ(r, t) == r[1] * t[2] = t[1] * r[2]
Zero == <<0, 1>>
One == <<1, 1>>

-----------------------------------------------------------------------------
(* Python dict: a sequence of [k, v] in insertion order; assigning to an    *)
(* existing key keeps its position.                                         *)
DictKeys(d) == [i \in 1..Len(d) |-> d[i].k]
DictValues(d) == [i \in 1..Len(d) |-> d[i].v]
DictHas(d, key) == \E i \in 1..Len(d) : d[i].k = key
DictGet(d, key) == d[CHOOSE i \in 1..Len(d) : d[i].k = key].v
DictSet(d, key, val) ==
    IF DictHas(d, key)
    THEN [i \in 1..Len(d) |-> IF d[i].k = key THEN [k |-> key, v |-> val] ELSE d[i]]
    ELSE Append(d, [k |-> key, v |-> val])

-----------------------------------------------------------------------------
(* Documents.  A timestamp attribute is [wall, sep, form, off]: wall is the *)
(* 14-digit local time in minutes, form tells how the offset is written     *)
(* ("none", "hhmm" as +HHMM, "hh:mm" as +HH:MM, "bad" for a text shorter    *)
(* than 14 characters), sep is the text between the digits and the offset,  *)
(* off the offset in minutes.                                               *)
TimeStr(wall, sep, form, off) == [wall |-> wall, sep |-> sep, form |-> form, off |-> off]
NoTime == TimeStr(0, "", "absent", 0)

ChannelEl(id, display) ==
    [kind |-> "channel", id |-> id, display |-> display, channel |-> <<>>,
     start |-> NoTime, stop |-> NoTime, title |-> <<>>, desc |-> <<>>]

ProgrammeEl(channel, start, stop, title, desc) ==
    [kind |-> "programme", id |-> <<>>, display |-> <<>>, channel |-> channel,
     start |-> start, stop |-> stop, title |-> title, desc |-> desc]

\* one #EXTINF line: the tvg-id attribute (when present) and the text after
\* the first comma (when there is a comma)
Extinf(has_tvg, tvg, has_comma, name) ==
    [has_tvg |-> has_tvg, tvg |-> tvg, has_comma |-> has_comma, name |-> name]

SeqsUpTo(S, n) == UNION {[1..k -> S] : k \in 0..n}
IsInjective(s) == \A i, j \in 1..Len(s) : i # j => s[i] # s[j]
DistinctSeqsUpTo(S, n) == {s \in SeqsUpTo(S, n) : IsInjective(s)}

\* the inputs the programs are run on
PlaylistEntries ==
    { Extinf(TRUE, <<"a", "-", "b">>, TRUE, <<"b">>),
      Extinf(TRUE, <<"b">>, TRUE, <<" ", "B">>),
      Extinf(TRUE, <<"a", "b", "2">>, TRUE, <<"c">>) }

EpgChannelEls ==
    { ChannelEl(<<"A", "-", "b">>, <<>>),
      ChannelEl(<<"b", "1">>, <<"B">>),
      ChannelEl(<<"a", ".", "b">>, <<"b", "1">>) }

EpgProgrammeEls ==
    { ProgrammeEl(<<"A", "-", "b">>, TimeStr(600, " ", "hhmm", 0),
                  TimeStr(660, " ", "hhmm", 0), <<"t">>, <<>>),
      ProgrammeEl(<<"A", "-", "b">>, TimeStr(300, "", "none", 0),
                  TimeStr(360, "", "none", 0), <<" ", "t">>, <<"d">>),
      ProgrammeEl(<<"a", ".", "b">>, TimeStr(600, " ", "hh:mm", 60),
                  TimeStr(660, " ", "hh:mm", 60), <<"t", " ">>, <<"d">>) }

\* a playlist whose two entries share the tvg-id and differ in name
SameIdPlaylist ==
    << Extinf(TRUE, <<"b">>, TRUE, <<" ", "B">>),
       Extinf(TRUE, <<"b">>, TRUE, <<"c">>) >>

Playlists == SeqsUpTo(PlaylistEntries, MaxPlaylist) \cup {SameIdPlaylist}

EpgDocs ==
    { [ok |-> TRUE, channels |-> cs, programmes |-> ps] :
        cs \in DistinctSeqsUpTo(EpgChannelEls, MaxEpgChannels),
        ps \in DistinctSeqsUpTo(EpgProgrammeEls, MaxProgs) }

\* a missing or unparseable EPG file
BadEpg == [ok |-> FALSE, channels |-> <<>>, programmes |-> <<>>]

\* --threshold / --min-ratio, type=float: any number parses, also one below 0
\* or above 1
Thresholds == { <<-1, 2>>, <<0, 1>>, <<6, 10>>, <<1, 1>>, <<3, 2>> }

-----------------------------------------------------------------------------
(* epg_generator_auto.py                                                    *)

RECURSIVE ExtractIds(_)
ExtractIds(text) ==
    IF text = <<>> THEN <<>>
    ELSE LET e == Head(text)
             raw == Strip(e.tvg)
             norm == norm_id(raw)
         IN  IF e.has_tvg /\ e.tvg # <<>> /\ norm # <<>>
             THEN <<[raw |-> raw, norm |-> norm]>> \o ExtractIds(Tail(text))
             ELSE ExtractIds(Tail(text))

RECURSIVE DedupeIds(_, _)
DedupeIds(l, seen) ==
    IF l = <<>> THEN <<>>
    ELSE IF Head(l).norm \notin seen
         THEN <<Head(l)>> \o DedupeIds(Tail(l), seen \cup {Head(l).norm})
         ELSE DedupeIds(Tail(l), seen)

parse_m3u_ids(text) == DedupeIds(ExtractIds(text), {})

\* index_epg, the <channel> elements
RECURSIVE IndexChannels(_, _)
IndexChannels(els, cm) ==
    IF els = <<>> THEN cm
    ELSE LET n == norm_id(Head(els).id)
         IN  IndexChannels(Tail(els),
                           IF n # <<>> THEN DictSet(cm, n, Head(els)) ELSE cm)

\* index_epg, the <programme> elements
RECURSIVE IndexProgrammes(_, _)
IndexProgrammes(els, pm) ==
    IF els = <<>> THEN pm
    ELSE LET n == norm_id(Head(els).channel)
             old == IF DictHas(pm, n) THEN DictGet(pm, n) ELSE <<>>
         IN  IndexProgrammes(Tail(els),
                             IF n # <<>> THEN DictSet(pm, n, Append(old, Head(els)))
                             ELSE pm)

index_epg(doc) ==
    [channel_map |-> IndexChannels(doc.channels, <<>>),
     prog_map |-> IndexProgrammes(doc.programmes, <<>>)]

\* variant: a later candidate of equal ratio replaces the earlier one
RECURSIVE BestFuzzyLoop_LastBest(_, _, _)
BestFuzzyLoop_LastBest(target, candidates, best) ==
    IF candidates = <<>> THEN best
    ELSE LET c == Head(candidates)
             r == Ratio(target, c)
         IN  BestFuzzyLoop_LastBest(target, Tail(candidates),
                 IF RatGE(r, best.r) THEN [c |-> c, r |-> r] ELSE best)

RECURSIVE BestFuzzyLoop(_, _, _)
BestFuzzyLoop(target, candidates, best) ==
    IF candidates = <<>> THEN best
    ELSE LET c == Head(candidates)
             r == Ratio(target, c)
         IN  BestFuzzyLoop(target, Tail(candidates),
                           IF RatGT(r, best.r) THEN [c |-> c, r |-> r] ELSE best)

\* the result is [none, key]: None, or the key (possibly the empty text)
best_fuzzy_match(target, candidates, thr) ==
    LET best == BestFuzzyLoop(target, candidates, [c |-> <<>>, r |-> Zero])
    IN  IF RatGE(best.r, thr) THEN [none |-> FALSE, key |-> best.c]
        ELSE [none |-> TRUE, key |-> <<>>]

\* re.sub(r'\d+$', '', norm)
RECURSIVE StripTrailingDigits(_)
StripTrailingDigits(s) ==
    IF s # <<>> /\ s[Len(s)] \in Digits
    THEN StripTrailingDigits(SubSeq(s, 1, Len(s) - 1))
    ELSE s

\* main, lines 138-154, one playlist id
AutoMatchOne(id, cm, thr) ==
    LET norm == id.norm
        match == best_fuzzy_match(norm, DictKeys(cm), thr)
        alt == StripTrailingDigits(norm)
    IN  IF DictHas(cm, norm)
        THEN [matched |-> TRUE, epg |-> norm, strategy |-> "exact"]
        ELSE IF ~match.none /\ match.key # <<>>
        THEN [matched |-> TRUE, epg |-> match.key, strategy |-> "fuzzy"]
        ELSE IF alt # <<>> /\ DictHas(cm, alt)
        THEN [matched |-> TRUE, epg |-> alt, strategy |-> "digits"]
        ELSE [matched |-> FALSE, epg |-> <<>>, strategy |-> "none"]

\* main, lines 137-154: [matched_channels, matchlog]
RECURSIVE AutoMatchLoop(_, _, _, _, _)
AutoMatchLoop(l, cm, thr, matched, log) ==
    IF l = <<>> THEN [matched_channels |-> matched, matchlog |-> log]
    ELSE LET id == Head(l)
             res == AutoMatchOne(id, cm, thr)
         IN  AutoMatchLoop(Tail(l), cm, thr,
                 IF res.matched THEN DictSet(matched, id.norm, res.epg) ELSE matched,
                 Append(log, [tvg |-> id.raw, key |-> id.norm, epg |-> res.epg,
                              matched |-> res.matched, strategy |-> res.strategy]))

\* main, lines 156-167: out_channels and out_programmes
RECURSIVE AutoOutLoop(_, _, _, _, _, _)
AutoOutLoop(values, cm, pm, used, out_channels, out_programmes) ==
    IF values = <<>> THEN [out_channels |-> out_channels, out_programmes |-> out_programmes]
    ELSE LET m == Head(values)
         IN  IF m \in used \/ ~DictHas(cm, m)
             THEN AutoOutLoop(Tail(values), cm, pm, used, out_channels, out_programmes)
             ELSE AutoOutLoop(Tail(values), cm, pm, used \cup {m},
                      Append(out_channels, DictGet(cm, m)),
                      out_programmes \o (IF DictHas(pm, m) THEN DictGet(pm, m) ELSE <<>>))

\* build_epg: the <tv> element, channels first
build_epg(channel_elements, programme_elements) ==
    channel_elements \o programme_elements

-----------------------------------------------------------------------------
(* epg_generator.py                                                         *)

\* TZ = ZoneInfo("America/Recife"): UTC-03:00 all year, in minutes
TZ == -180

\* a datetime is [wall, off]: local time and UTC offset, both in minutes
DateTime(wall, off) == [wall |-> wall, off |-> off]
Instant(d) == d.wall - d.off

\* strftime("%Y%m%d%H%M%S %z")
format_xmltv_datetime(dtobj) == TimeStr(dtobj.wall, " ", "hhmm", dtobj.off)

\* [ok, dt]: ok is FALSE where the function raises
parse_xmltv_datetime(s) ==
    IF s.form \in {"bad", "absent"} THEN [ok |-> FALSE, dt |-> DateTime(0, 0)]
    ELSE IF s.form = "none" THEN [ok |-> TRUE, dt |-> DateTime(s.wall, TZ)]
    ELSE [ok |-> TRUE, dt |-> DateTime(s.wall, s.off)]

\* parse_m3u_text, one #EXTINF line
M3uChannel(e) ==
    LET tvg_id == IF e.has_tvg /\ e.tvg # <<>> THEN Strip(e.tvg) ELSE <<>>
        name == IF e.has_comma THEN Strip(e.name)
                ELSE IF tvg_id # <<>> THEN tvg_id ELSE <<"chan_i">>
    IN  [tvg_id |-> IF tvg_id # <<>> THEN tvg_id ELSE name, name |-> name]

parse_m3u_text(text) == [i \in 1..Len(text) |-> M3uChannel(text[i])]

\* parse_external_epg_raw, lines 160-164
ParseEpgChannels(els) ==
    [i \in 1..Len(els) |-> [id |-> els[i].id, display |-> Strip(els[i].display)]]

\* parse_external_epg_raw, lines 167-188
RECURSIVE ParseEpgEvents(_, _)
ParseEpgEvents(els, events) ==
    IF els = <<>> THEN events
    ELSE LET prog == Head(els)
             ch == prog.channel
             start_dt == parse_xmltv_datetime(prog.start)
             stop_dt == parse_xmltv_datetime(prog.stop)
             ev == [start |-> start_dt.dt, stop |-> stop_dt.dt,
                    title |-> Strip(prog.title), desc |-> Strip(prog.desc)]
             old == IF DictHas(events, ch) THEN DictGet(events, ch) ELSE <<>>
         IN  IF ch = <<>> \/ ~start_dt.ok \/ ~stop_dt.ok
             THEN ParseEpgEvents(Tail(els), events)
             ELSE ParseEpgEvents(Tail(els), DictSet(events, ch, Append(old, ev)))

\* list.sort(key=lambda e: e["start"]): stable
RECURSIVE InsertByStart(_, _)
InsertByStart(sorted, e) ==
    IF sorted = <<>> THEN <<e>>
    ELSE IF Instant(e.start) < Instant(Head(sorted).start)
         THEN <<e>> \o sorted
         ELSE <<Head(sorted)>> \o InsertByStart(Tail(sorted), e)

RECURSIVE SortByStart(_, _)
SortByStart(l, sorted) ==
    IF l = <<>> THEN sorted
    ELSE SortByStart(Tail(l), InsertByStart(sorted, Head(l)))

\* parse_external_epg_raw, lines 190-192
SortEvents(events) ==
    [i \in 1..Len(events) |->
        [k |-> events[i].k, v |-> SortByStart(events[i].v, <<>>)]]

\* (None, None) is [ok |-> FALSE]
parse_external_epg_raw(doc) ==
    IF ~doc.ok THEN [ok |-> FALSE, epg_channels |-> <<>>, events |-> <<>>]
    ELSE [ok |-> TRUE,
          epg_channels |-> ParseEpgChannels(doc.channels),
          events |-> SortEvents(ParseEpgEvents(doc.programmes, <<>>))]

\* build_mapping, lines 240-244: (id, normalized candidate name)
Candidates(epg_chs) ==
    [i \in 1..Len(epg_chs) |->
        LET ec == epg_chs[i]
            cand_name == IF ec.display # <<>> THEN ec.display ELSE ec.id
        IN  [id |-> ec.id, norm |-> normalize_name(cand_name)]]

\* variant: the ids are compared without lower-casing them
ExactIdMatch_CaseSensitive(tvg, epg_chs) ==
    LET hits == {i \in 1..Len(epg_chs) :
                    epg_chs[i].id # <<>> /\ epg_chs[i].id = tvg}
    IN  IF hits = {} THEN [found |-> FALSE, id |-> <<>>]
        ELSE [found |-> TRUE,
              id |-> epg_chs[CHOOSE i \in hits : \A j \in hits : i <= j].id]

\* build_mapping, lines 262-267: the first EPG channel with the same
\* lower-cased id
ExactIdMatch(tvg, epg_chs) ==
    LET hits == {i \in 1..Len(epg_chs) :
                    /\ epg_chs[i].id # <<>>
                    /\ LowerStr(epg_chs[i].id) = LowerStr(tvg)}
    IN  IF hits = {} THEN [found |-> FALSE, id |-> <<>>]
        ELSE [found |-> TRUE,
              id |-> epg_chs[CHOOSE i \in hits : \A j \in hits : i <= j].id]

\* build_mapping, lines 271-277
RECURSIVE FuzzyLoop(_, _, _)
FuzzyLoop(norm, cands, best) ==
    IF cands = <<>> THEN best
    ELSE LET c == Head(cands)
             score == Ratio(norm, c.norm)
         IN  FuzzyLoop(norm, Tail(cands),
                 IF c.norm # <<>> /\ RatGT(score, best.score)
                 THEN [none |-> FALSE, epg |-> c.id, score |-> score]
                 ELSE best)

\* build_mapping, lines 256-282, one playlist channel
MapOne(ch, epg_chs, min_ratio) ==
    LET mname == IF ch.name # <<>> THEN ch.name ELSE ch.tvg_id
        norm == normalize_name(mname)
        exact == ExactIdMatch(ch.tvg_id, epg_chs)
        start == [none |-> TRUE, epg |-> <<>>, score |-> Zero]
        best == IF exact.found
                THEN [none |-> FALSE, epg |-> exact.id, score |-> One]
                ELSE FuzzyLoop(norm, Candidates(epg_chs), start)
        res == IF RatGE(best.score, min_ratio) THEN best
               ELSE [none |-> TRUE, epg |-> <<>>, score |-> best.score]
    IN  [key |-> norm, fuzzy |-> ~exact.found, best |-> best, res |-> res]

\* build_mapping, lines 255-282: [mapping, matchlog]
RECURSIVE MappingLoop(_, _, _, _, _)
MappingLoop(l, epg_chs, min_ratio, map, log) ==
    IF l = <<>> THEN [mapping |-> map, matchlog |-> log]
    ELSE LET ch == Head(l)
             m == MapOne(ch, epg_chs, min_ratio)
         IN  MappingLoop(Tail(l), epg_chs, min_ratio,
                 DictSet(map, ch.tvg_id, m.res),
                 Append(log, [tvg |-> ch.tvg_id, key |-> m.key, epg |-> m.res.epg,
                              matched |-> ~m.res.none, score |-> m.res.score,
                              strategy |-> IF m.res.none THEN "none"
                                           ELSE IF m.fuzzy THEN "fuzzy" ELSE "exact"]))

build_mapping(m3u_chs, epg_chs, min_ratio) ==
    MappingLoop(m3u_chs, epg_chs, min_ratio, <<>>, <<>>)

\* main, line 392: no EPG channels, every channel maps to (None, 0.0)
RECURSIVE EmptyMapping(_, _)
EmptyMapping(l, map) ==
    IF l = <<>> THEN map
    ELSE EmptyMapping(Tail(l),
             DictSet(map, Head(l).tvg_id, [none |-> TRUE, epg |-> <<>>, score |-> Zero]))

\* build_final_epg, lines 321-328
EventProgrammes(tvg, events) ==
    [i \in 1..Len(events) |->
        ProgrammeEl(tvg, format_xmltv_datetime(events[i].start),
                    format_xmltv_datetime(events[i].stop),
                    events[i].title, events[i].desc)]

\* variant: the block number in the texts is the 0-based loop index
Placeholder_ZeroBased(tvg, name, base, i) ==
    LET s == DateTime(base.wall + 60 * i, base.off)
        e == DateTime(s.wall + 60, s.off)
    IN  ProgrammeEl(tvg, format_xmltv_datetime(s), format_xmltv_datetime(e),
                    <<"Program ", ToString(i), " - ">> \o name,
                    <<"Programa gerado automaticamente - ">> \o name
                        \o <<" - Bloco ", ToString(i)>>)

\* build_final_epg, lines 332-340, block i of range(hours)
Placeholder(tvg, name, base, i) ==
    LET s == DateTime(base.wall + 60 * i, base.off)
        e == DateTime(s.wall + 60, s.off)
    IN  ProgrammeEl(tvg, format_xmltv_datetime(s), format_xmltv_datetime(e),
                    <<"Program ", ToString(i + 1), " - ">> \o name,
                    <<"Programa gerado automaticamente - ">> \o name
                        \o <<" - Bloco ", ToString(i + 1)>>)

\* build_final_epg, lines 331-340
Placeholders(tvg, name, base, h) ==
    [n \in 1..h |-> Placeholder(tvg, name, base, n - 1)]

\* build_final_epg, lines 313-340, one playlist channel
FinalOne(ch, events, map, h, base) ==
    LET tvg == ch.tvg_id
        m == IF DictHas(map, tvg) THEN DictGet(map, tvg)
             ELSE [none |-> TRUE, epg |-> <<>>, score |-> Zero]
        use == /\ ~m.none /\ m.epg # <<>>
               /\ ~events.none /\ events.d # <<>>
               /\ DictHas(events.d, m.epg)
    IN  <<ChannelEl(tvg, ch.name)>>
        \o (IF use THEN EventProgrammes(tvg, DictGet(events.d, m.epg))
            ELSE Placeholders(tvg, ch.name, base, h))

\* build_final_epg, lines 309-340: the <tv> element
RECURSIVE FinalLoop(_, _, _, _, _)
FinalLoop(l, events, map, h, base) ==
    IF l = <<>> THEN <<>>
    ELSE FinalOne(Head(l), events, map, h, base)
         \o FinalLoop(Tail(l), events, map, h, base)

\* now_tz().replace(minute=0, second=0, microsecond=0)
StartBase(t) == DateTime(t - (t % 60), TZ)

build_final_epg(m3u_chs, events, map, h, t) ==
    FinalLoop(m3u_chs, events, map, h, StartBase(t))

\* the clock readings and --hours values the program is run with
Nows == {725}
HoursArgs == 0..MaxHours

-----------------------------------------------------------------------------
(* build_epg_br.py                                                          *)

\* `kwn in s` for two texts
IsSubstring(kwn, s) ==
    \E i \in 0..(Len(s) - Len(kwn)) : SubSeq(s, i + 1, i + Len(kwn)) = kwn

\* is_brazilian_channel, lines 117-124: the keywords that appear in s.  The
\* word-boundary search matches only where kwn is a substring, so the test
\* is `kwn in s`.
RECURSIVE CountKeywords(_, _)
CountKeywords(kws, s) ==
    IF kws = <<>> THEN 0
    ELSE (IF normalize(Head(kws)) # <<>> /\ IsSubstring(normalize(Head(kws)), s)
          THEN 1 ELSE 0)
         + CountKeywords(Tail(kws), s)

\* is_brazilian_channel: " ".join([cid] + displays), normalized, holds at
\* least max(1, min_kw_matches) keywords
is_brazilian_channel(channel_el, kws, min_kw) ==
    CountKeywords(kws, normalize(channel_el.id \o <<" ">> \o channel_el.display))
        >= (IF min_kw > 1 THEN min_kw ELSE 1)

\* build_filtered_epg, lines 136-140
RECURSIVE BrIds(_, _, _)
BrIds(channels, kws, min_kw) ==
    IF channels = <<>> THEN <<>>
    ELSE (IF is_brazilian_channel(Head(channels), kws, min_kw)
             /\ Head(channels).id # <<>>
          THEN <<Head(channels).id>> ELSE <<>>)
         \o BrIds(Tail(channels), kws, min_kw)

InList(x, l) == \E i \in 1..Len(l) : l[i] = x

\* build_filtered_epg, lines 168-182: the programmes whose channel is in
\* br_ids, cloned
BrProgrammes(progs, ids_br) ==
    SelectSeq(progs, LAMBDA p : p.channel # <<>> /\ InList(p.channel, ids_br))

\* build_filtered_epg, lines 152-164: the channels whose id is in br_ids,
\* copied with their display-name
BrChannels(channels, ids_br) ==
    SelectSeq(channels, LAMBDA ch : ch.id # <<>> /\ InList(ch.id, ids_br))

\* build_filtered_epg: [br_ids, tv]
build_filtered_epg(doc, kws, min_kw) ==
    [br_ids |-> BrIds(doc.channels, kws, min_kw),
     tv |-> BrChannels(doc.channels, BrIds(doc.channels, kws, min_kw))
            \o BrProgrammes(doc.programmes, BrIds(doc.channels, kws, min_kw))]

\* the source documents, --keywords and --min-kw-matches the program is run
\* with
BrChannelEls ==
    { ChannelEl(<<"b", "1">>, <<"a">>),
      ChannelEl(<<"b", "1">>, <<"c">>),
      ChannelEl(<<>>, <<"A">>),
      ChannelEl(<<"c">>, <<"d">>) }

BrProgrammeEls ==
    { ProgrammeEl(<<"b", "1">>, TimeStr(600, " ", "hhmm", 0),
                  TimeStr(660, " ", "hhmm", 0), <<"t">>, <<>>),
      ProgrammeEl(<<"b", "1">>, TimeStr(300, " ", "hhmm", 0),
                  TimeStr(360, " ", "hhmm", 0), <<"d">>, <<>>),
      ProgrammeEl(<<"c">>, TimeStr(600, " ", "hhmm", 0),
                  TimeStr(660, " ", "hhmm", 0), <<"t">>, <<>>),
      ProgrammeEl(<<>>, TimeStr(600, " ", "hhmm", 0),
                  TimeStr(660, " ", "hhmm", 0), <<"t">>, <<>>) }

BrDocs ==
    { [ok |-> TRUE, channels |-> cs, programmes |-> ps] :
        cs \in DistinctSeqsUpTo(BrChannelEls, MaxEpgChannels),
        ps \in DistinctSeqsUpTo(BrProgrammeEls, MaxProgs) }

KeywordLists ==
    { << <<"a">> >>,
      << <<"a">>, <<"b", "1">> >>,
      << <<"-">>, <<"1", " ", "A">> >> }

MinKwArgs == {0, 1, 2}

-----------------------------------------------------------------------------
NoEvents == [none |-> TRUE, d |-> <<>>]

Init ==
    /\ pc = "start"
    /\ program = "none"
    /\ m3u = <<>>
    /\ epg = BadEpg
    /\ threshold = Zero
    /\ ids = <<>>
    /\ channel_map = <<>>
    /\ prog_map = <<>>
    /\ matched_channels = <<>>
    /\ m3u_channels = <<>>
    /\ epg_channels = <<>>
    /\ epg_events = NoEvents
    /\ mapping = <<>>
    /\ matchlog = <<>>
    /\ hours = 0
    /\ now = 0
    /\ start_base = DateTime(0, 0)
    /\ tv = <<>>
    /\ keywords = <<>>
    /\ min_kw_matches = 0
    /\ br_ids = <<>>
    /\ nIn = <<>>
    /\ nOut = [fn |-> "none", once |-> <<>>, twice |-> <<>>, variants |-> {}]

genVars == <<m3u_channels, epg_channels, epg_events, mapping, hours, now, start_base>>
autoVars == <<ids, channel_map, prog_map, matched_channels>>
normVars == <<nIn, nOut>>
brVars == <<keywords, min_kw_matches, br_ids>>

\* main, lines 122-125
AutoParseM3u ==
    /\ pc = "start"
    /\ \E text \in Playlists :
         /\ m3u' = text
         /\ ids' = parse_m3u_ids(text)
    /\ program' = "auto"
    /\ pc' = "auto_index"
    /\ UNCHANGED <<epg, threshold, channel_map, prog_map, matched_channels,
                   matchlog, tv, genVars, normVars, brVars>>

\* main, lines 127-135
AutoIndexEpg ==
    /\ pc = "auto_index"
    /\ \E doc \in EpgDocs :
         /\ epg' = doc
         /\ channel_map' = index_epg(doc).channel_map
         /\ prog_map' = index_epg(doc).prog_map
    /\ pc' = "auto_match"
    /\ UNCHANGED <<program, m3u, threshold, ids, matched_channels, matchlog, tv,
                   genVars, normVars, brVars>>

\* main, lines 130-132: the EPG cannot be opened or parsed, sys.exit(2)
AutoIndexEpgFail ==
    /\ pc = "auto_index"
    /\ epg' = BadEpg
    /\ pc' = "exit"
    /\ UNCHANGED <<program, m3u, threshold, autoVars, matchlog, tv, genVars, normVars, brVars>>

\* main, lines 137-154
AutoMatch ==
    /\ pc = "auto_match"
    /\ \E thr \in Thresholds :
         LET res == AutoMatchLoop(ids, channel_map, thr, <<>>, <<>>)
         IN  /\ threshold' = thr
             /\ matched_channels' = res.matched_channels
             /\ matchlog' = res.matchlog
    /\ pc' = "auto_out"
    /\ UNCHANGED <<program, m3u, epg, ids, channel_map, prog_map, tv, genVars, normVars, brVars>>

\* main, lines 155-172
AutoWrite ==
    /\ pc = "auto_out"
    /\ LET out == AutoOutLoop(DictValues(matched_channels), channel_map, prog_map,
                              {}, <<>>, <<>>)
       IN  tv' = build_epg(out.out_channels, out.out_programmes)
    /\ pc' = "done"
    /\ UNCHANGED <<program, m3u, epg, threshold, autoVars, matchlog, genVars, normVars, brVars>>

\* main, lines 360-366
GenParseM3u ==
    /\ pc = "start"
    /\ \E text \in Playlists :
         /\ m3u' = text
         /\ m3u_channels' = parse_m3u_text(text)
         /\ pc' = IF parse_m3u_text(text) = <<>> THEN "exit" ELSE "gen_epg"
    /\ program' = "gen"
    /\ UNCHANGED <<epg, threshold, autoVars, epg_channels, epg_events, mapping,
                   matchlog, hours, now, start_base, tv, normVars, brVars>>

\* main, lines 368-384
GenLoadEpg ==
    /\ pc = "gen_epg"
    /\ \E doc \in EpgDocs \cup {BadEpg} :
         LET parsed == parse_external_epg_raw(doc)
         IN  /\ epg' = doc
             /\ epg_channels' = parsed.epg_channels
             /\ epg_events' = IF parsed.ok THEN [none |-> FALSE, d |-> parsed.events]
                              ELSE NoEvents
    /\ pc' = "gen_map"
    /\ UNCHANGED <<program, m3u, threshold, autoVars, m3u_channels, mapping,
                   matchlog, hours, now, start_base, tv, normVars, brVars>>

\* main, lines 386-392
GenBuildMapping ==
    /\ pc = "gen_map"
    /\ \E min_ratio \in Thresholds :
         /\ threshold' = min_ratio
         /\ IF epg_channels # <<>>
            THEN LET res == build_mapping(m3u_channels, epg_channels, min_ratio)
                 IN  mapping' = res.mapping /\ matchlog' = res.matchlog
            ELSE mapping' = EmptyMapping(m3u_channels, <<>>) /\ matchlog' = <<>>
    /\ pc' = "gen_final"
    /\ UNCHANGED <<program, m3u, epg, autoVars, m3u_channels, epg_channels,
                   epg_events, hours, now, start_base, tv, normVars, brVars>>

\* main, line 407
GenBuildFinalEpg ==
    /\ pc = "gen_final"
    /\ \E h \in HoursArgs, t \in Nows :
         /\ hours' = h
         /\ now' = t
         /\ start_base' = StartBase(t)
         /\ tv' = build_final_epg(m3u_channels, epg_events, mapping, h, t)
    /\ pc' = "done"
    /\ UNCHANGED <<program, m3u, epg, threshold, autoVars, m3u_channels,
                   epg_channels, epg_events, mapping, matchlog, normVars, brVars>>

Next ==
    \/ AutoParseM3u
    \/ AutoIndexEpg
    \/ AutoIndexEpgFail
    \/ AutoMatch
    \/ AutoWrite
    \/ GenParseM3u
    \/ GenLoadEpg
    \/ GenBuildMapping
    \/ GenBuildFinalEpg

Spec == Init /\ [][Next]_vars

-----------------------------------------------------------------------------
(* build_epg_br.py, main                                                    *)

\* main, lines 200-222: the arguments, the download and the parse test
BrDownload ==
    /\ pc = "start"
    /\ \E doc \in BrDocs, kws \in KeywordLists, n \in MinKwArgs :
         /\ epg' = doc
         /\ keywords' = kws
         /\ min_kw_matches' = n
    /\ program' = "br"
    /\ pc' = "br_parsed"
    /\ UNCHANGED <<m3u, threshold, autoVars, genVars, matchlog, tv, br_ids, normVars>>

\* main, lines 205-222: the source cannot be read or parsed, sys.exit(2)
BrDownloadFail ==
    /\ pc = "start"
    /\ \E kws \in KeywordLists, n \in MinKwArgs :
         /\ keywords' = kws
         /\ min_kw_matches' = n
    /\ epg' = BadEpg
    /\ program' = "br"
    /\ pc' = "exit"
    /\ UNCHANGED <<m3u, threshold, autoVars, genVars, matchlog, tv, br_ids, normVars>>

\* main, lines 224-235: --preview N, the channels are listed and nothing is
\* written
BrPreview ==
    /\ pc = "br_parsed"
    /\ pc' = "exit"
    /\ UNCHANGED <<program, m3u, epg, threshold, autoVars, genVars, matchlog, tv,
                   brVars, normVars>>

\* main, lines 237-253
BrBuildFilteredEpg ==
    /\ pc = "br_parsed"
    /\ br_ids' = build_filtered_epg(epg, keywords, min_kw_matches).br_ids
    /\ tv' = build_filtered_epg(epg, keywords, min_kw_matches).tv
    /\ pc' = "done"
    /\ UNCHANGED <<program, m3u, epg, threshold, autoVars, genVars, matchlog,
                   keywords, min_kw_matches, normVars>>

NextBr ==
    \/ BrDownload
    \/ BrDownloadFail
    \/ BrPreview
    \/ BrBuildFilteredEpg

SpecBr == Init /\ [][NextBr]_vars

-----------------------------------------------------------------------------
(* Vocabulary of the properties.                                            *)
Matched == pc \in {"auto_out", "gen_final", "done"} /\ program \in {"auto", "gen"}
Written == pc = "done" /\ program \in {"auto", "gen"}

\* the threshold the matching ran with lies in [0,1]
ThresholdInRange == RatGE(threshold, Zero) /\ RatGE(One, threshold)

TvProgrammes == SelectSeq(tv, LAMBDA el : el.kind = "programme")
TvChannels == SelectSeq(tv, LAMBDA el : el.kind = "channel")

\* the identifiers of the playlist channels
PlaylistIds ==
    IF program = "gen" THEN {m3u_channels[i].tvg_id : i \in 1..Len(m3u_channels)}
    ELSE {Strip(m3u[i].tvg) : i \in {j \in 1..Len(m3u) : m3u[j].has_tvg}}

\* the candidate index the fuzzy step scans: comparison key and the EPG
\* channel it stands for, in insertion order
FuzzyIndex ==
    IF program = "gen"
    THEN LET cands == Candidates(epg_channels)
         IN  SelectSeq([i \in 1..Len(epg_channels) |->
                           [key |-> cands[i].norm, target |-> epg_channels[i].id]],
                       LAMBDA c : c.key # <<>>)
    ELSE [i \in 1..Len(channel_map) |->
             [key |-> channel_map[i].k, target |-> channel_map[i].k]]

\* the ratio of a playlist key against every candidate of the index
Ratios(key) ==
    LET idx == FuzzyIndex
    IN  [i \in 1..Len(idx) |-> Ratio(key, idx[i].key)]

\* the positions of the candidates that reach the best ratio
BestPositions(key) ==
    LET r == Ratios(key)
    IN  {i \in 1..Len(r) : \A j \in 1..Len(r) : RatGE(r[i], r[j])}

BestRatio(key) ==
    LET r == Ratios(key)
        best == BestPositions(key)
    IN  IF best = {} THEN Zero ELSE r[CHOOSE i \in best : TRUE]

\* an exact candidate for a playlist channel: the same normalized key in the
\* index (auto), the same lower-cased raw id (gen)
ExactPositions(e) ==
    IF program = "gen"
    THEN {i \in 1..Len(epg_channels) :
             epg_channels[i].id # <<>> /\ LowerStr(epg_channels[i].id) = LowerStr(e.tvg)}
    ELSE {i \in 1..Len(channel_map) : channel_map[i].k = e.key}

ExactTarget(e, i) ==
    IF program = "gen" THEN epg_channels[i].id ELSE channel_map[i].k

-----------------------------------------------------------------------------
(* C1: every programme written to the output carries, as its channel key,   *)
(* the identifier (tvg-id) of a playlist channel, never the EPG channel's   *)
(* own id, in both generators.                                              *)
C1_RekeyedToPlaylistId ==
    Written =>
        \A i \in 1..Len(TvProgrammes) : TvProgrammes[i].channel \in PlaylistIds

-----------------------------------------------------------------------------
(* C2: the output is structurally complete: every playlist channel appears  *)
(* in the output as a channel and owns at least one programme, matched or   *)
(* not (placeholders requested: hours >= 1 in the generator that makes      *)
(* them).                                                                   *)
C2_EveryPlaylistChannelPresent ==
    (Written /\ (program = "gen" => hours >= 1)) =>
        \A id \in PlaylistIds :
            /\ \E i \in 1..Len(TvChannels) : TvChannels[i].id = id
            /\ \E i \in 1..Len(TvProgrammes) : TvProgrammes[i].channel = id

-----------------------------------------------------------------------------
(* C3: exact precedence: a playlist channel that has an exact candidate is  *)
(* resolved to the first such EPG channel by the exact step (score 1.0      *)
(* where a score is kept), and the fuzzy step is not run for it, whatever   *)
(* the threshold in [0,1] and the other candidates.                         *)
C3_ExactPrecedence ==
    (Matched /\ ThresholdInRange) =>
        \A n \in 1..Len(matchlog) :
            LET e == matchlog[n]
                hits == ExactPositions(e)
            IN  hits # {} =>
                  /\ e.matched
                  /\ e.strategy = "exact"
                  /\ e.epg = ExactTarget(e, CHOOSE i \in hits : \A j \in hits : i <= j)
                  /\ program = "gen" => e.score = One
                  /\ program = "gen" => /\ ~DictGet(mapping, e.tvg).none
                                        /\ DictGet(mapping, e.tvg).epg = e.epg
                                        /\ DictGet(mapping, e.tvg).score = One
                  /\ program = "auto" => DictGet(matched_channels, e.key) = e.key

\* an exact match was taken although another EPG channel is a perfect fuzzy
\* candidate for the channel's name
C3_Witness ==
    /\ Matched /\ program = "gen" /\ ThresholdInRange
    /\ \E n \in 1..Len(matchlog) :
          /\ matchlog[n].strategy = "exact"
          /\ \E i \in 1..Len(FuzzyIndex) :
                /\ FuzzyIndex[i].target # matchlog[n].epg
                /\ RatEQ(Ratio(matchlog[n].key, FuzzyIndex[i].key), One)

-----------------------------------------------------------------------------
-----------------------------------------------------------------------------
(* C5: threshold rule: a channel without an exact candidate is resolved if  *)
(* and only if the best fuzzy ratio over the index reaches min_ratio; below *)
(* it, or with an empty index, the result is no match (with the best ratio  *)
(* as score where a score is kept) and no other strategy resolves it.       *)
C5_ThresholdRule ==
    Matched =>
        \A n \in 1..Len(matchlog) :
            LET e == matchlog[n]
                r == BestRatio(e.key)
            IN  ExactPositions(e) = {} =>
                  /\ e.matched => RatGE(r, threshold)
                  /\ FuzzyIndex = <<>> => ~e.matched
                  /\ (RatGE(r, threshold) /\ RatGT(r, Zero)) => e.matched
                  /\ (program = "gen" /\ ~e.matched) => RatEQ(e.score, r)

-----------------------------------------------------------------------------
(* C8: index collision policy: a key of the candidate index of index_epg    *)
(* maps to the first EPG channel, in document order, that normalizes to it. *)
C8_FirstChannelKept ==
    (program = "auto" /\ pc \in {"auto_match", "auto_out", "done"}) =>
        \A n \in 1..Len(channel_map) :
            LET same == {i \in 1..Len(epg.channels) :
                            norm_id(epg.channels[i].id) = channel_map[n].k}
            IN  /\ same # {}
                /\ channel_map[n].v = epg.channels[CHOOSE i \in same : \A j \in same : i <= j]

-----------------------------------------------------------------------------
(* The output of build_final_epg, channel by channel: the j-th <channel>    *)
(* element is followed by the programmes written for the j-th playlist      *)
(* channel.                                                                 *)
ChannelPos(j) ==
    CHOOSE i \in 1..Len(tv) :
        /\ tv[i].kind = "channel"
        /\ Cardinality({k \in 1..i : tv[k].kind = "channel"}) = j

Segment(j) ==
    SubSeq(tv, ChannelPos(j) + 1,
           IF j = Len(m3u_channels) THEN Len(tv) ELSE ChannelPos(j + 1) - 1)

\* the EPG channel the j-th playlist channel is mapped to
MappedTo(j) == DictGet(mapping, m3u_channels[j].tvg_id)

\* the j-th playlist channel has reconciled entries: it is mapped to an EPG
\* channel that owns schedule entries
Reconciled(j) ==
    /\ ~MappedTo(j).none
    /\ ~epg_events.none
    /\ DictHas(epg_events.d, MappedTo(j).epg)

GenWritten == Written /\ program = "gen"

-----------------------------------------------------------------------------
(* C9: synthesizer coverage: a playlist channel without reconciled entries  *)
(* gets exactly `hours` placeholders; the first starts at the clock reading *)
(* rounded down to the hour; each is one hour wide with stop > start; each  *)
(* stops where the next starts; each is keyed by the playlist channel's id  *)
(* and entry i carries the block number i+1 in its title.                   *)
C9_PlaceholderCoverage ==
    GenWritten =>
        \A j \in 1..Len(m3u_channels) :
            ~Reconciled(j) =>
                LET seg == Segment(j)
                    Start(i) == parse_xmltv_datetime(seg[i].start)
                    Stop(i) == parse_xmltv_datetime(seg[i].stop)
                IN  /\ Len(seg) = hours
                    /\ \A i \in 1..Len(seg) :
                          /\ seg[i].kind = "programme"
                          /\ seg[i].channel = m3u_channels[j].tvg_id
                          /\ Start(i).ok /\ Stop(i).ok
                          /\ Instant(Stop(i).dt) > Instant(Start(i).dt)
                          /\ Instant(Stop(i).dt) - Instant(Start(i).dt) = 60
                          /\ seg[i].title = <<"Program ", ToString(i), " - ">>
                                                \o m3u_channels[j].name
                    /\ \A i \in 1..(Len(seg) - 1) : seg[i].stop = seg[i + 1].start
                    /\ Len(seg) >= 1 =>
                          /\ Start(1).dt.wall % 60 = 0
                          /\ Start(1).dt.wall <= now
                          /\ now < Start(1).dt.wall + 60
                          /\ Start(1).dt.off = TZ

\* a channel without reconciled entries got at least two placeholders, at a
\* clock reading that is not a full hour
C9_Witness ==
    /\ GenWritten
    /\ hours >= 2
    /\ now % 60 # 0
    /\ \E j \in 1..Len(m3u_channels) : ~Reconciled(j) /\ Len(Segment(j)) = hours

-----------------------------------------------------------------------------
(* C10: the entries re-keyed for a matched channel are copied verbatim:     *)
(* each has the title, description, start and stop, byte for byte, of an    *)
(* entry of the matched EPG channel in the EPG document.                    *)
C10_CopiedVerbatim ==
    GenWritten =>
        \A j \in 1..Len(m3u_channels) :
            Reconciled(j) =>
                \A i \in 1..Len(Segment(j)) :
                    \E n \in 1..Len(epg.programmes) :
                        /\ epg.programmes[n].channel = MappedTo(j).epg
                        /\ epg.programmes[n].title = Segment(j)[i].title
                        /\ epg.programmes[n].desc = Segment(j)[i].desc
                        /\ epg.programmes[n].start = Segment(j)[i].start
                        /\ epg.programmes[n].stop = Segment(j)[i].stop

-----------------------------------------------------------------------------
(* Override tables a caller may hold: playlist key -> EPG channel id.       *)
(* Neither program has an option or a parameter that takes one, so a run is *)
(* the same whatever table the caller holds.                                *)
OverrideTables ==
    { << [k |-> <<"b">>, v |-> <<"a", ".", "b">>] >>,
      << [k |-> <<"c">>, v |-> <<"b", "1">>],
         [k |-> <<"a", "b", "2">>, v |-> <<"A", "-", "b">>] >> }

\* the positions of the index whose EPG channel has the id t
OverrideHits(t) ==
    IF program = "gen" THEN {i \in 1..Len(epg_channels) : epg_channels[i].id = t}
    ELSE {i \in 1..Len(channel_map) : channel_map[i].v.id = t}

(* C11: manual overrides take precedence: a playlist channel whose key the  *)
(* caller's override table maps to an EPG id of the index is resolved to    *)
(* that EPG channel (score 1.0 where a score is kept), whatever the exact   *)
(* and fuzzy candidates are.                                                *)
C11_ManualOverridePrecedence ==
    Matched =>
        \A ov \in OverrideTables :
            \A n \in 1..Len(matchlog) :
                LET e == matchlog[n]
                    hits == IF DictHas(ov, e.key) THEN OverrideHits(DictGet(ov, e.key))
                            ELSE {}
                IN  hits # {} =>
                      /\ e.matched
                      /\ \E i \in hits : e.epg = ExactTarget(e, i)
                      /\ program = "gen" => e.score = One

-----------------------------------------------------------------------------
(* C12: configuration errors fail fast: with a threshold below 0 or above 1 *)
(* the program stops before any channel is matched; no match decision, no   *)
(* mapping and no output guide is ever made with such a threshold.          *)
C12_ThresholdFailFast ==
    (pc \in {"auto_out", "gen_final", "done"}) => ThresholdInRange

-----------------------------------------------------------------------------
\* s is a subsequence of t: the elements of s, in their order, among those of t
RECURSIVE IsSubsequence(_, _)
IsSubsequence(s, t) ==
    IF s = <<>> THEN TRUE
    ELSE IF t = <<>> THEN FALSE
    ELSE IF Head(s) = Head(t) THEN IsSubsequence(Tail(s), Tail(t))
    ELSE IsSubsequence(s, Tail(t))

BrWritten == pc = "done" /\ program = "br"

\* the channels of the source that is_brazilian_channel finds Brazilian
BrazilianChannels ==
    SelectSeq(epg.channels,
              LAMBDA ch : is_brazilian_channel(ch, keywords, min_kw_matches))

(* C13: the filtered guide holds only channels that is_brazilian_channel    *)
(* classifies as Brazilian, in source order, and exactly the programmes of  *)
(* the source whose channel is the id of one of them, in source order: each *)
(* programme written references a channel written, and no programme of a    *)
(* channel written is lost.                                                 *)
C13_OnlyBrazilian ==
    BrWritten =>
        /\ IsSubsequence(TvChannels, BrazilianChannels)
        /\ TvProgrammes =
              SelectSeq(epg.programmes,
                        LAMBDA p : \E i \in 1..Len(TvChannels) :
                                      TvChannels[i].id = p.channel)
        /\ \A i \in 1..Len(TvProgrammes) :
              \E j \in 1..Len(TvChannels) : TvChannels[j].id = TvProgrammes[i].channel

-----------------------------------------------------------------------------
\* the entries of the EPG document that belong to the EPG channel id, in
\* document order (gen: by channel attribute; auto: by normalized channel)
SourceEntries(id) ==
    IF program = "gen"
    THEN SelectSeq(epg.programmes,
                   LAMBDA p : /\ p.channel = id
                              /\ parse_xmltv_datetime(p.start).ok
                              /\ parse_xmltv_datetime(p.stop).ok)
    ELSE SelectSeq(epg.programmes, LAMBDA p : norm_id(p.channel) = id)

\* the written entry w is the source entry p re-keyed: same instants, same
\* texts up to the surrounding blanks
SameEntry(w, p) ==
    /\ w.title = Strip(p.title)
    /\ w.desc = Strip(p.desc)
    /\ Instant(parse_xmltv_datetime(w.start).dt) = Instant(parse_xmltv_datetime(p.start).dt)
    /\ Instant(parse_xmltv_datetime(w.stop).dt) = Instant(parse_xmltv_datetime(p.stop).dt)

(* C14: source order is preserved: the entries written for a matched        *)
(* channel are the entries of its EPG channel in the order of the EPG       *)
(* document, also where that order is not chronological.                    *)
C14_SourceOrderKept ==
    /\ GenWritten =>
         \A j \in 1..Len(m3u_channels) :
             Reconciled(j) =>
                 LET src == SourceEntries(MappedTo(j).epg)
                     seg == Segment(j)
                 IN  /\ Len(seg) = Len(src)
                     /\ \A i \in 1..Len(seg) : SameEntry(seg[i], src[i])
    /\ (Written /\ program = "auto") =>
         \A n \in 1..Len(matched_channels) :
             LET m == matched_channels[n].v
             IN  SelectSeq(TvProgrammes, LAMBDA p : norm_id(p.channel) = m)
                     = SourceEntries(m)

-----------------------------------------------------------------------------
\* the entries written for the n-th playlist channel matched, keyed by its id
OwnEntries(n) ==
    IF program = "gen" THEN SelectSeq(Segment(n), LAMBDA w : w.channel = matchlog[n].tvg)
    ELSE SelectSeq(TvProgrammes, LAMBDA w : w.channel = matchlog[n].tvg)

\* the written entry w is a copy of the source entry p under another key
CopyOf(w, p) ==
    IF program = "gen" THEN SameEntry(w, p) ELSE w = [p EXCEPT !.channel = w.channel]

\* two playlist channels are resolved to the same EPG channel, which owns
\* schedule entries
SharedTarget(n1, n2) ==
    /\ n1 # n2
    /\ matchlog[n1].matched /\ matchlog[n2].matched
    /\ matchlog[n1].epg = matchlog[n2].epg
    /\ SourceEntries(matchlog[n1].epg) # <<>>

(* C15: no exclusivity: where two playlist channels are resolved to the     *)
(* same EPG channel, each of them gets in the output its own full copy of   *)
(* that channel's schedule entries, keyed by its own identifier.            *)
C15_NoExclusivity ==
    (Written /\ matchlog # <<>>) =>
        \A n1, n2 \in 1..Len(matchlog) :
            SharedTarget(n1, n2) =>
                LET src == SourceEntries(matchlog[n1].epg)
                    own == OwnEntries(n1)
                IN  /\ Len(own) = Len(src)
                    /\ \A i \in 1..Len(src) : \E k \in 1..Len(own) : CopyOf(own[k], src[i])

-----------------------------------------------------------------------------
\* the playlist entries a matcher has to process, in playlist order: every
\* entry (gen), every entry with a tvg-id that has a key (auto)
MatchEntries ==
    IF program = "gen" THEN m3u
    ELSE SelectSeq(m3u, LAMBDA e : e.has_tvg /\ norm_id(Strip(e.tvg)) # <<>>)

\* the result of matching the playlist entry e alone against the index
OwnResult(e) ==
    IF program = "gen"
    THEN LET r == MapOne(M3uChannel(e), epg_channels, threshold).res
         IN  [matched |-> ~r.none, epg |-> r.epg]
    ELSE LET r == AutoMatchOne([raw |-> Strip(e.tvg), norm |-> norm_id(Strip(e.tvg))],
                               channel_map, threshold)
         IN  [matched |-> r.matched, epg |-> r.epg]

\* the result the output is written from, for the playlist entry e
UsedResult(e) ==
    IF program = "gen"
    THEN LET r == DictGet(mapping, M3uChannel(e).tvg_id)
         IN  [matched |-> ~r.none, epg |-> r.epg]
    ELSE LET k == norm_id(Strip(e.tvg))
         IN  IF DictHas(matched_channels, k)
             THEN [matched |-> TRUE, epg |-> DictGet(matched_channels, k)]
             ELSE [matched |-> FALSE, epg |-> <<>>]

(* C16: playlist entries are matched independently: every entry is          *)
(* processed, also one that shares its identifier or its normalized key     *)
(* with another entry, and the result recorded and used for it is the       *)
(* result of matching that entry alone against the index and the threshold. *)
C16_MatchedIndependently ==
    (Matched /\ (program = "gen" => epg_channels # <<>>)) =>
        /\ Len(matchlog) = Len(MatchEntries)
        /\ \A i \in 1..Len(MatchEntries) :
              /\ matchlog[i].tvg = Strip(MatchEntries[i].tvg)
              /\ matchlog[i].matched = OwnResult(MatchEntries[i]).matched
              /\ matchlog[i].epg = OwnResult(MatchEntries[i]).epg
              /\ UsedResult(MatchEntries[i]) = OwnResult(MatchEntries[i])

-----------------------------------------------------------------------------
(* The normalizers applied to one text and to the texts that differ from it *)
(* by one change of case, of accent, of a space or of a punctuation mark.   *)
NormAlphabet == {"a", "A", "1", " ", "-", "o_circ"}
NormInputs == SeqsUpTo(NormAlphabet, MaxLen)

ToggleCase(c) ==
    CASE c = "a" -> "A" [] c = "A" -> "a" [] c = "b" -> "B" [] c = "B" -> "b"
      [] c = "o" -> "O" [] c = "O" -> "o"
      [] c = "o_circ" -> "O_circ" [] c = "O_circ" -> "o_circ"
      [] OTHER -> c

ToggleAccent(c) ==
    CASE c = "o" -> "o_circ" [] c = "o_circ" -> "o"
      [] c = "O" -> "O_circ" [] c = "O_circ" -> "O"
      [] OTHER -> c

ReplaceAt(s, i, c) == [j \in 1..Len(s) |-> IF j = i THEN c ELSE s[j]]
InsertAt(s, i, c) == SubSeq(s, 1, i) \o <<c>> \o SubSeq(s, i + 1, Len(s))
DeleteAt(s, i) == SubSeq(s, 1, i - 1) \o SubSeq(s, i + 1, Len(s))

Variants(s) ==
    {ReplaceAt(s, i, ToggleCase(s[i])) : i \in 1..Len(s)}
    \cup {ReplaceAt(s, i, ToggleAccent(s[i])) : i \in 1..Len(s)}
    \cup {InsertAt(s, i, c) : i \in 0..Len(s), c \in {" ", "-"}}
    \cup {DeleteAt(s, i) : i \in {j \in 1..Len(s) : s[j] \in {" ", "-"}}}

InitNorm ==
    /\ pc = "norm"
    /\ program = "norm"
    /\ nIn \in NormInputs
    /\ nOut = [fn |-> "none", once |-> <<>>, twice |-> <<>>, variants |-> {}]
    /\ m3u = <<>>
    /\ epg = BadEpg
    /\ threshold = Zero
    /\ ids = <<>>
    /\ channel_map = <<>>
    /\ prog_map = <<>>
    /\ matched_channels = <<>>
    /\ m3u_channels = <<>>
    /\ epg_channels = <<>>
    /\ epg_events = NoEvents
    /\ mapping = <<>>
    /\ matchlog = <<>>
    /\ hours = 0
    /\ now = 0
    /\ start_base = DateTime(0, 0)
    /\ tv = <<>>
    /\ keywords = <<>>
    /\ min_kw_matches = 0
    /\ br_ids = <<>>

pipeVars == <<program, m3u, epg, threshold, autoVars, genVars, brVars, matchlog, tv>>

\* norm_id applied
ApplyNormId ==
    /\ pc = "norm"
    /\ nOut' = [fn |-> "norm_id", once |-> norm_id(nIn),
                twice |-> norm_id(norm_id(nIn)),
                variants |-> {norm_id(t) : t \in Variants(nIn)}]
    /\ pc' = "norm_done"
    /\ UNCHANGED <<nIn, pipeVars>>

\* normalize_name applied
ApplyNormalizeName ==
    /\ pc = "norm"
    /\ nOut' = [fn |-> "normalize_name", once |-> normalize_name(nIn),
                twice |-> normalize_name(normalize_name(nIn)),
                variants |-> {normalize_name(t) : t \in Variants(nIn)}]
    /\ pc' = "norm_done"
    /\ UNCHANGED <<nIn, pipeVars>>

\* normalize applied
ApplyNormalize ==
    /\ pc = "norm"
    /\ nOut' = [fn |-> "normalize", once |-> normalize(nIn),
                twice |-> normalize(normalize(nIn)),
                variants |-> {normalize(t) : t \in Variants(nIn)}]
    /\ pc' = "norm_done"
    /\ UNCHANGED <<nIn, pipeVars>>

NextNorm ==
    \/ ApplyNormId
    \/ ApplyNormalizeName
    \/ ApplyNormalize

SpecNorm == InitNorm /\ [][NextNorm]_vars

-----------------------------------------------------------------------------
(* C6: each normalizer is idempotent: applied twice it gives what it gives  *)
(* applied once.                                                            *)
C6_Idempotent ==
    pc = "norm_done" => nOut.twice = nOut.once

-----------------------------------------------------------------------------
(* C7: the keys of norm_id and normalize_name hold only ASCII lower-case    *)
(* letters and digits, and texts that differ only in case, accents, spaces  *)
(* or punctuation get the same key.                                         *)
C7_InsensitiveKey ==
    (pc = "norm_done" /\ nOut.fn \in {"norm_id", "normalize_name"}) =>
        /\ \A i \in 1..Len(nOut.once) : IsAsciiLowerOrDigit(nOut.once[i])
        /\ nOut.variants \subseteq {nOut.once}

====
